---------------------------- MODULE Spec2Model ----------------------------
(***************************************************************************)
(* The behavior-tree evaluator of src/src/behavior_tree.rs as a state      *)
(* machine.  One evaluation (Behavior::run) is a chain of nested calls;    *)
(* the model keeps that chain as an explicit stack of frames, one frame    *)
(* per node being evaluated, and takes one step per call, per return and   *)
(* per leaf start/finish.                                                  *)
(*                                                                         *)
(* Leaves are the two MyAction enums of the repository (src/src/main.rs    *)
(* and the tests of behavior_tree.rs) and one leaf "Any" that stands for   *)
(* an arbitrary implementation of the Actionable trait: it may return      *)
(* Ok(Success), Ok(Running) or an error.  The state is the product of the  *)
(* two State types the repository's leaves work on.  The counters are u32  *)
(* and the value is i32 in the source; within the bounds of this model     *)
(* neither comes anywhere near its width.                                  *)
(***************************************************************************)
EXTENDS Integers, Sequences, FiniteSets, TLC

VARIABLES
    tree,     \* the root Behavior, built by the caller before evaluation
    state,    \* the ActionState the caller lends to the evaluation
    state0,   \* history: the state as it was when the evaluation was called
    stack,    \* the chain of Behavior::run calls in progress, root first
    ret,      \* the Result a finished child hands to the call on top
    result,   \* the Result the top-level call returned, NoResult before
    trace,    \* history: the leaf executions started so far, in order
    last,     \* history: the call that returned most recently
    finished, \* history: the number of leaf executions that have returned
    ncalls,   \* history: the number of top-level calls made so far
    prev      \* history: the outcome of the top-level call before this one

vars == <<tree, state, state0, stack, ret, result, trace, last, finished,
          ncalls, prev>>

---------------------------------------------------------------------------
(* Bounds of the model *)

\* most children of a Select or Sequence in the generated trees
MaxKids == 2
\* most children of a Select or Sequence of concrete leaves
MaxLeaves == 4
\* most leaf executions in one evaluation, and most iterations of one
\* While (the loop of the source has no cap and may go on forever)
MaxSteps == 12
\* most top-level calls on one tree
MaxCalls == 2

(* Program constants *)

\* IsLowerThan5: state.0 < 5
Limit == 5
\* the start value of test_while_failing_immediately
FarValue == 42

---------------------------------------------------------------------------
(* enum Behavior<A> *)

Action(a) == [kind |-> "Action", a |-> a, kids |-> <<>>]
Invert(b) == [kind |-> "Invert", a |-> "", kids |-> <<b>>]
Select(behaviors) == [kind |-> "Select", a |-> "", kids |-> behaviors]
Sequence(behaviors) == [kind |-> "Sequence", a |-> "", kids |-> behaviors]
\* kids[1] is the condition, kids[2] the action
While(condition, action) ==
    [kind |-> "While", a |-> "", kids |-> <<condition, action>>]

(* enum Response, and Result<Response, ActionError> *)

Response == {"Success", "Running"}
Ok(r) == [tag |-> "Ok", val |-> r]
Err(e) == [tag |-> "Err", val |-> e]
NoResult == [tag |-> "None", val |-> ""]

IsOk(res) == res.tag = "Ok"
IsErr(res) == res.tag = "Err"

---------------------------------------------------------------------------
(* The leaves.  Each run yields a set of possible outcomes, a Result and   *)
(* the state it leaves.                                                    *)

Outcome(res, st) == [res |-> res, st |-> st]

\* impl Actionable for MyAction, src/src/main.rs
MainActions == {"Fail", "Greet", "Wave", "Bow"}
MainRun(a, s) ==
    CASE a = "Greet" -> {Outcome(Ok("Success"), [s EXCEPT !.num_greets = @ + 1])}
      [] a = "Wave"  -> {Outcome(Ok("Success"), [s EXCEPT !.num_waves = @ + 1])}
      [] a = "Bow"   -> {Outcome(Ok("Success"), [s EXCEPT !.num_bows = @ + 1])}
      [] a = "Fail"  -> {Outcome(Err("Broken"), s)}

\* impl Actionable for MyAction, the tests of src/src/behavior_tree.rs
TestActions == {"Increase", "Decrease", "IsLowerThan5"}
TestRun(a, s) ==
    CASE a = "Increase" -> {Outcome(Ok("Success"), [s EXCEPT !.value = @ + 1])}
      [] a = "Decrease" -> {Outcome(Ok("Success"), [s EXCEPT !.value = @ - 1])}
      [] a = "IsLowerThan5" ->
            IF s.value < Limit
            THEN {Outcome(Ok("Success"), s)}
            ELSE {Outcome(Err(">= 5"), s)}

\* trait Actionable: any implementation returns some Result<Response, _>
AnyRun(s) ==
    {Outcome(Ok(r), s) : r \in Response} \cup {Outcome(Err("leaf"), s)}

ActionRun(a, s) ==
    IF a \in MainActions THEN MainRun(a, s)
    ELSE IF a \in TestActions THEN TestRun(a, s)
    ELSE AnyRun(s)

---------------------------------------------------------------------------
(* The trees and start states the model evaluates *)

Lists(S, n) == UNION {[1..k -> S] : k \in 0..n}

\* every Behavior with children drawn from S
Compose(S) ==
    S \cup {Invert(b) : b \in S}
      \cup {Select(bs) : bs \in Lists(S, MaxKids)}
      \cup {Sequence(bs) : bs \in Lists(S, MaxKids)}
      \cup {While(c, b) : c \in S, b \in S}

\* trees of arbitrary leaves, two levels of composition
GenTrees == Compose(Compose({Action("Any")}))

\* Select and Sequence over the leaves of main.rs, as main builds them
MainTrees ==
    LET leaves == {Action(a) : a \in MainActions}
    IN  {Select(bs) : bs \in Lists(leaves, MaxLeaves)}
          \cup {Sequence(bs) : bs \in Lists(leaves, MaxLeaves)}

\* the trees of the tests, and their neighbours
TestTrees ==
    LET leaves == {Action(a) : a \in TestActions}
        conds == leaves \cup {Invert(b) : b \in leaves}
    IN  {Select(bs) : bs \in Lists(leaves, 2)}
          \cup {Sequence(bs) : bs \in Lists(leaves, 2)}
          \cup {While(c, b) : c \in conds, b \in conds}

\* a subtree under two Inverts
InvertedTrees ==
    {Invert(Invert(x)) : x \in Compose({Action("Any")}) \cup MainTrees}

\* Select and Sequence over leaves of main.rs and over Selects and
\* Sequences of Wave and Fail: children that change the state and fail
NestedTrees ==
    LET inner == {Action("Wave"), Action("Fail")}
        kids == {Action(a) : a \in MainActions}
                  \cup {Select(bs) : bs \in Lists(inner, 2)}
                  \cup {Sequence(bs) : bs \in Lists(inner, 2)}
    IN  {Select(bs) : bs \in Lists(kids, MaxKids)}
          \cup {Sequence(bs) : bs \in Lists(kids, MaxKids)}

\* a tree that is one leaf
LeafTrees == {Action(a) : a \in MainActions \cup TestActions}

\* the two trees main builds
SelectScenario ==
    Select(<<Action("Fail"), Action("Wave"), Action("Greet"), Action("Bow")>>)
SequenceScenario ==
    Sequence(<<Action("Wave"), Action("Greet"), Action("Fail"), Action("Bow")>>)
\* the tree of test_while and test_while_failing_immediately
TestWhile == While(Action("IsLowerThan5"), Action("Increase"))

\* State { num_greets: 0, num_waves: 0, num_bows: 0 }, MyState(v)
ZeroState(v) == [value |-> v, num_greets |-> 0, num_waves |-> 0, num_bows |-> 0]
InitValues == 0..(Limit + 1) \cup {FarValue}

---------------------------------------------------------------------------
(* Frames of the call chain *)

\* a call of Behavior::run on `node`; i is the position of the loop over
\* the children (in a While: 1 the condition, 2 the action); calls is the
\* history of the child calls made so far and what each returned (in a
\* While: those of the current iteration, iters counting the iterations
\* completed before it); t0 is the number of leaf executions started
\* before this call, and t1 of a call that returned the number started
\* before its return; made[k] is the number of calls of child k made
Frame(node, path, t0) ==
    [node |-> node, path |-> path, pc |-> "ready", i |-> 1, calls |-> <<>>,
     iters |-> 0, t0 |-> t0, made |-> [k \in 1..Len(node.kids) |-> 0]]

NoFrame == Frame([kind |-> "None", a |-> "", kids |-> <<>>], <<>>, 0)
Returned(fr, res) ==
    [node |-> fr.node, path |-> fr.path, calls |-> fr.calls,
     iters |-> fr.iters, t0 |-> fr.t0, t1 |-> Len(trace), made |-> fr.made,
     out |-> res]

Top == stack[Len(stack)]
Running == stack /= <<>>
Pending == ret /= NoResult

\* the frame on top after the pending Result has been noted in its history
Noted == [Top EXCEPT !.calls = Append(@, [i |-> Top.i, res |-> ret])]

\* the outcome of a top-level call: what it returned, the leaves it ran,
\* the state it was called in and the state it left
NoCall == [result |-> NoResult, trace |-> <<>>, state0 |-> ZeroState(0),
           state |-> ZeroState(0)]

\* nothing has been called yet
Fresh ==
    /\ state0 = state
    /\ stack = <<>>
    /\ ret = NoResult
    /\ result = NoResult
    /\ trace = <<>>
    /\ last = [node |-> NoFrame.node, path |-> <<>>, calls |-> <<>>, iters |-> 0,
               t0 |-> 0, t1 |-> 0, made |-> <<>>, out |-> NoResult]
    /\ finished = 0
    /\ ncalls = 0
    /\ prev = NoCall

Init ==
    /\ \/ /\ tree \in GenTrees \cup MainTrees \cup InvertedTrees \cup NestedTrees
          /\ state = ZeroState(0)
       \/ /\ tree \in TestTrees \cup LeafTrees
          /\ state \in {ZeroState(v) : v \in InitValues}
    /\ Fresh

\* bt.run(&(), &mut my_state)
Call ==
    /\ ~Running
    /\ result = NoResult
    /\ stack' = <<Frame(tree, <<>>, Len(trace))>>
    /\ state0' = state
    /\ ncalls' = ncalls + 1
    /\ UNCHANGED <<tree, state, ret, result, trace, last, finished, prev>>

\* the call on top invokes its child number i: b.run(args, state).await
Push_Spawned(i) ==
    /\ stack' = Append([stack EXCEPT ![Len(stack)].made[i] = @ + 1,
                                     ![Len(stack)].i = @ + 1],
                        Frame(Top.node.kids[i], Append(Top.path, i), Len(trace)))
    /\ UNCHANGED <<tree, state, state0, ret, result, trace, last, finished,
                   ncalls, prev>>
Push(i) ==
    /\ stack' = Append([stack EXCEPT ![Len(stack)].made[i] = @ + 1],
                        Frame(Top.node.kids[i], Append(Top.path, i), Len(trace)))
    /\ UNCHANGED <<tree, state, state0, ret, result, trace, last, finished,
                   ncalls, prev>>

\* the call on top, its history being fr, returns res to its caller
Return(fr, res) ==
    /\ stack' = SubSeq(stack, 1, Len(stack) - 1)
    /\ last' = Returned(fr, res)
    /\ IF Len(stack) = 1
       THEN result' = res /\ ret' = NoResult
       ELSE ret' = res /\ UNCHANGED result
    /\ UNCHANGED <<tree, state0, trace, ncalls, prev>>

\* the call on top goes on with fr as its frame
Continue(fr) ==
    /\ stack' = [stack EXCEPT ![Len(stack)] = fr]
    /\ ret' = NoResult
    /\ UNCHANGED <<tree, state, state0, result, trace, last, finished, ncalls,
                   prev>>

(* Behavior::Action(a) *)

ActionStart ==
    /\ Running /\ Top.node.kind = "Action" /\ Top.pc = "ready"
    /\ Len(trace) < MaxSteps
    /\ stack' = [stack EXCEPT ![Len(stack)].pc = "running"]
    /\ trace' = Append(trace, [path |-> Top.path, a |-> Top.node.a])
    /\ UNCHANGED <<tree, state, state0, ret, result, last, finished, ncalls,
                   prev>>

ActionFinish ==
    /\ Running /\ Top.node.kind = "Action" /\ Top.pc = "running"
    /\ \E o \in ActionRun(Top.node.a, state) :
          /\ state' = o.st
          /\ finished' = finished + 1
          /\ Return(Top, o.res)

\* a composite hands `state` on to its children and writes nothing to it
StateKept_RolledBack ==
    /\ state' = IF IsErr(ret) THEN state0 ELSE state
    /\ UNCHANGED finished
StateKept == UNCHANGED <<state, finished>>

\* for b in behaviors: the position after child i
NextChild_Retried(i) == i
NextChild(i) == i + 1

(* Behavior::Invert(b) *)

InvertResult_AnyOk(res) ==
    IF IsOk(res) THEN Err("Inverted Ok") ELSE Ok("Success")
InvertResult(res) ==
    IF IsOk(res)
    THEN IF res.val = "Success" THEN Err("Inverted Ok") ELSE Ok("Running")
    ELSE Ok("Success")

InvertCall ==
    /\ Running /\ Top.node.kind = "Invert" /\ ~Pending
    /\ Push(1)

InvertReturn ==
    /\ Running /\ Top.node.kind = "Invert" /\ Pending
    /\ Return(Noted, InvertResult(ret))
    /\ StateKept

(* Behavior::Select(behaviors) *)

SelectReturns_OnlySuccess(res) == res = Ok("Success")
SelectReturns(res) == IsOk(res)
SelectFailure_LastError ==
    IF Top.calls = <<>>
    THEN Err("No behavior successful")
    ELSE Top.calls[Len(Top.calls)].res
SelectFailure_Vacuous ==
    IF Top.node.kids = <<>> THEN Ok("Success") ELSE Err("No behavior successful")
SelectFailure == Err("No behavior successful")

SelectCall ==
    /\ Running /\ Top.node.kind = "Select" /\ ~Pending
    /\ Top.i <= Len(Top.node.kids)
    /\ Push(Top.i)

SelectResult ==
    /\ Running /\ Top.node.kind = "Select" /\ Pending
    /\ IF SelectReturns(ret)
       THEN Return(Noted, ret) /\ StateKept
       ELSE Continue([Noted EXCEPT !.i = NextChild(@)])

SelectExhausted ==
    /\ Running /\ Top.node.kind = "Select" /\ ~Pending
    /\ Top.i > Len(Top.node.kids)
    /\ Return(Top, SelectFailure)
    /\ StateKept

(* Behavior::Sequence(behaviors) *)

SequenceContinues_Swapped(res) == IsErr(res)
SequenceContinues_OnlySuccess(res) == res = Ok("Success")
SequenceContinues_Always(res) == TRUE
SequenceContinues(res) == IsOk(res)
SequenceFailure_Propagated(res) == res
SequenceFailure(res) == Err("one behavior failed")

SequenceCall ==
    /\ Running /\ Top.node.kind = "Sequence" /\ ~Pending
    /\ Top.i <= Len(Top.node.kids)
    /\ Push(Top.i)

SequenceResult ==
    /\ Running /\ Top.node.kind = "Sequence" /\ Pending
    /\ IF SequenceContinues(ret)
       THEN Continue([Noted EXCEPT !.i = NextChild(@)])
       ELSE Return(Noted, SequenceFailure(ret)) /\ StateKept

SequenceDone ==
    /\ Running /\ Top.node.kind = "Sequence" /\ ~Pending
    /\ Top.i > Len(Top.node.kids)
    /\ Return(Top, Ok("Success"))
    /\ StateKept

(* Behavior::While { condition, action } *)

WhileRunsAction_Always(condition_result) == TRUE
WhileRunsAction(condition_result) == IsOk(condition_result)
WhileExit_Propagated(condition_result) == condition_result
WhileExit(condition_result) == Ok("Success")
WhileLoops_Swapped(action_result) == IsErr(action_result)
WhileLoops(action_result) == IsOk(action_result)
WhileFailure_Propagated(action_result) == action_result
WhileFailure(action_result) == Err("action failed")

WhileCondition ==
    /\ Running /\ Top.node.kind = "While" /\ ~Pending
    /\ Top.i = 1
    /\ Top.iters < MaxSteps
    /\ Push(1)

WhileConditionResult ==
    /\ Running /\ Top.node.kind = "While" /\ Pending
    /\ Top.i = 1
    /\ IF WhileRunsAction(ret)
       THEN Continue([Noted EXCEPT !.i = 2])
       ELSE Return(Noted, WhileExit(ret)) /\ StateKept

WhileAction ==
    /\ Running /\ Top.node.kind = "While" /\ ~Pending
    /\ Top.i = 2
    /\ Push(2)

WhileActionResult ==
    /\ Running /\ Top.node.kind = "While" /\ Pending
    /\ Top.i = 2
    /\ IF WhileLoops(ret)
       THEN Continue([Top EXCEPT !.i = 1, !.calls = <<>>, !.iters = @ + 1])
       ELSE Return(Noted, WhileFailure(ret)) /\ StateKept

Next ==
    \/ Call
    \/ ActionStart
    \/ ActionFinish
    \/ InvertCall
    \/ InvertReturn
    \/ SelectCall
    \/ SelectResult
    \/ SelectExhausted
    \/ SequenceCall
    \/ SequenceResult
    \/ SequenceDone
    \/ WhileCondition
    \/ WhileConditionResult
    \/ WhileAction
    \/ WhileActionResult

Spec == Init /\ [][Next]_vars

---------------------------------------------------------------------------
(* The same tree called again.  Behavior::run takes the tree by shared     *)
(* reference and keeps what it knows of its progress in the locals of the  *)
(* call, so a later call has the tree and the state the earlier calls left *)
(* and nothing else.                                                       *)

\* the trees called more than once: those of main and of the tests, and
\* one level of composition over an arbitrary leaf
AgainTrees == MainTrees \cup NestedTrees \cup Compose({Action("Any")})

InitAgain ==
    /\ \/ /\ tree \in AgainTrees
          /\ state = ZeroState(0)
       \/ /\ tree \in TestTrees \cup LeafTrees
          /\ state \in {ZeroState(v) : v \in InitValues}
    /\ Fresh

\* the frame of a top-level call: self is the root, at its first child
RootFrame_Resumed ==
    [Frame(tree, <<>>, 0) EXCEPT
        !.i = IF last.calls = <<>> THEN 1 ELSE last.calls[Len(last.calls)].i]
RootFrame == Frame(tree, <<>>, 0)

\* bt.run(&(), &mut my_state), once more, after the call before returned
CallAgain ==
    /\ ~Running
    /\ result /= NoResult
    /\ ncalls < MaxCalls
    /\ prev' = [result |-> result, trace |-> trace, state0 |-> state0,
                state |-> state]
    /\ stack' = <<RootFrame>>
    /\ state0' = state
    /\ ncalls' = ncalls + 1
    /\ result' = NoResult
    /\ trace' = <<>>
    /\ finished' = 0
    /\ last' = [node |-> NoFrame.node, path |-> <<>>, calls |-> <<>>, iters |-> 0,
                t0 |-> 0, t1 |-> 0, made |-> <<>>, out |-> NoResult]
    /\ UNCHANGED <<tree, state, ret>>

NextAgain ==
    \/ Next
    \/ CallAgain

SpecAgain == InitAgain /\ [][NextAgain]_vars

---------------------------------------------------------------------------
(* Vocabulary of the properties *)

IsPrefix(p, q) == Len(p) <= Len(q) /\ SubSeq(q, 1, Len(p)) = p

\* the child calls of a history are children 1, 2, ... in list order
InOrder(calls) == \A j \in 1..Len(calls) : calls[j].i = j

\* the leaf executions started during the returned call r
LeavesOf(r) == SubSeq(trace, r.t0 + 1, r.t1)

\* the child of the call at `path` under which leaf execution e happened
ChildAt(path, e) == e.path[Len(path) + 1]

\* the leaf executions of the returned call r all lie under its children
\* 1..k, and in the order of the children
WithinChildren(r, k) ==
    LET es == LeavesOf(r)
    IN  /\ \A n \in 1..Len(es) :
              /\ IsPrefix(r.path, es[n].path)
              /\ Len(es[n].path) > Len(r.path)
              /\ ChildAt(r.path, es[n]) \in 1..k
        /\ \A m, n \in 1..Len(es) :
              m < n => ChildAt(r.path, es[m]) <= ChildAt(r.path, es[n])

Finished == result /= NoResult

LeafTrace(behaviors) ==
    [k \in 1..Len(behaviors) |-> [path |-> <<k>>, a |-> behaviors[k].a]]

---------------------------------------------------------------------------
\* C1: a Select runs its children strictly in list order; when child k is
\* the first not to fail, exactly children 1..k were run, each once, no
\* later child was run, and the Select returns child k's Ok(r) unchanged.
\* main's Select([Fail, Wave, Greet, Bow]) on zeroed counters returns
\* Ok(Success) with only num_waves raised to 1.
C1_SelectShortCircuit ==
    /\ \A n \in 1..Len(stack) :
          stack[n].node.kind = "Select" =>
             /\ InOrder(stack[n].calls)
             /\ stack[n].i = Len(stack[n].calls) + 1
             /\ \A j \in 1..Len(stack[n].calls) : IsErr(stack[n].calls[j].res)
    /\ (last.node.kind = "Select" /\ IsOk(last.out)) =>
          LET k == Len(last.calls)
          IN  /\ k \in 1..Len(last.node.kids)
              /\ InOrder(last.calls)
              /\ \A j \in 1..(k - 1) : IsErr(last.calls[j].res)
              /\ last.calls[k].res = last.out
              /\ last.out.val \in Response
              /\ WithinChildren(last, k)
    /\ (tree = SelectScenario /\ Finished) =>
          /\ result = Ok("Success")
          /\ state = [state0 EXCEPT !.num_waves = 1]
          /\ trace = <<[path |-> <<1>>, a |-> "Fail"], [path |-> <<2>>, a |-> "Wave"]>>

\* a Select returned from its second child, after the first failed and
\* with later children left alone
C1_Witness ==
    /\ last.node.kind = "Select" /\ IsOk(last.out)
    /\ Len(last.calls) = 2
    /\ Len(last.node.kids) > 2
    /\ last.t1 - last.t0 = 2

\* C2: a Sequence over n leaves that always succeed returns Ok(Success)
\* and every leaf is executed exactly once, left to right, each finishing
\* before the next starts.
AlwaysSucceed == {"Greet", "Wave", "Bow", "Increase", "Decrease"}
SucceedingSequence ==
    /\ tree.kind = "Sequence"
    /\ \A k \in 1..Len(tree.kids) :
          tree.kids[k].kind = "Action" /\ tree.kids[k].a \in AlwaysSucceed

C2_SequenceOfSuccesses ==
    SucceedingSequence =>
       /\ IsPrefix(trace, LeafTrace(tree.kids))
       /\ Finished => result = Ok("Success") /\ trace = LeafTrace(tree.kids)
       /\ Running =>
             LET done == Len(stack[1].calls) + (IF Len(stack) = 1 /\ Pending THEN 1 ELSE 0)
             IN  /\ Len(stack) <= 2
                 /\ Len(trace) = done + (IF Len(stack) = 2 /\ Top.pc = "running" THEN 1 ELSE 0)
                 /\ Len(stack) = 2 => stack[1].i = done + 1 /\ Top.path = <<done + 1>>
       /\ Finished \/ ENABLED Next

C2_Witness ==
    /\ SucceedingSequence /\ Finished
    /\ Len(tree.kids) = 3
    /\ state.num_greets = 1 /\ state.num_waves = 1 /\ state.num_bows = 1

\* C3: when child k is the first child of a Sequence to fail, exactly
\* children 1..k were run (each once, in order), no later child was run,
\* and the Sequence fails with "one behavior failed", whatever the error
\* of child k was.  main's Sequence([Wave, Greet, Fail, Bow]) fails so.
C3_SequenceStopsAtFailure ==
    /\ \A n \in 1..Len(stack) :
          stack[n].node.kind = "Sequence" =>
             /\ InOrder(stack[n].calls)
             /\ stack[n].i = Len(stack[n].calls) + 1
             /\ \A j \in 1..Len(stack[n].calls) : IsOk(stack[n].calls[j].res)
    /\ (last.node.kind = "Sequence" /\ IsErr(last.out)) =>
          LET k == Len(last.calls)
          IN  /\ k \in 1..Len(last.node.kids)
              /\ InOrder(last.calls)
              /\ \A j \in 1..(k - 1) : IsOk(last.calls[j].res)
              /\ IsErr(last.calls[k].res)
              /\ last.out = Err("one behavior failed")
              /\ WithinChildren(last, k)
    /\ (last.node.kind = "Sequence" /\ \E j \in 1..Len(last.calls) : IsErr(last.calls[j].res))
          => IsErr(last.out)
    /\ (tree = SequenceScenario /\ Finished) =>
          /\ result = Err("one behavior failed")
          /\ trace = SubSeq(LeafTrace(tree.kids), 1, 3)

\* a Sequence failed at its third child, whose own error was another,
\* with a fourth child never run
C3_Witness ==
    /\ last.node.kind = "Sequence" /\ IsErr(last.out)
    /\ Len(last.calls) = 3 /\ Len(last.node.kids) = 4
    /\ last.calls[3].res = Err("Broken")
    /\ last.out /= last.calls[3].res

---------------------------------------------------------------------------
\* a frame without its history of child results
Forget(fr) == [fr EXCEPT !.calls = <<>>]
Below == SubSeq(stack, 1, Len(stack) - 1)

\* the call on top goes on: nothing but its frame changes, and the frame
\* becomes fr up to its history
GoesOnAs(fr) ==
    /\ Len(stack') = Len(stack)
    /\ SubSeq(stack', 1, Len(stack) - 1) = Below
    /\ Forget(stack'[Len(stack)]) = Forget(fr)
    /\ ret' = NoResult
    /\ UNCHANGED <<tree, state, result, trace, last>>

\* C4: Sequence and While treat a child's Ok(Running) exactly like
\* Ok(Success).  On either result a Sequence advances to its next child, a
\* While runs its action after the condition and loops again after the
\* action, and the step taken does not depend on which of the two it was:
\* nothing changes but the position of the call on top.  A Sequence none
\* of whose children failed called them all and returns Ok(Success), also
\* when some child, the last included, returned Ok(Running).
C4_Step ==
    (Running /\ Pending /\ IsOk(ret) /\ Top.node.kind \in {"Sequence", "While"}) =>
       /\ ret.val \in Response
       /\ Top.node.kind = "Sequence" => GoesOnAs([Top EXCEPT !.i = @ + 1])
       /\ (Top.node.kind = "While" /\ Top.i = 1) => GoesOnAs([Top EXCEPT !.i = 2])
       /\ (Top.node.kind = "While" /\ Top.i = 2) =>
             GoesOnAs([Top EXCEPT !.i = 1, !.iters = @ + 1])

C4_Returned ==
    (last.node.kind = "Sequence"
        /\ \A j \in 1..Len(last.calls) : IsOk(last.calls[j].res)) =>
       /\ last.out = Ok("Success")
       /\ Len(last.calls) = Len(last.node.kids)
       /\ InOrder(last.calls)

\* C4: both parts, the steps after a child's Ok(Running) or Ok(Success) and
\* the result of a Sequence without a failed child
C4_RunningLikeSuccess == []C4_Returned /\ [][C4_Step]_vars

\* a Sequence returned Ok(Success) after its first child returned
\* Ok(Running) and so did its last
C4_Witness ==
    /\ last.node.kind = "Sequence" /\ last.out = Ok("Success")
    /\ Len(last.calls) = 2
    /\ last.calls[1].res = Ok("Running")
    /\ last.calls[2].res = Ok("Running")
    /\ last.t1 - last.t0 >= 2

\* C5: an Invert runs its child exactly once; a failure of the child
\* (whatever the error) becomes Ok(Success), Ok(Success) becomes the error
\* "Inverted Ok", and Ok(Running) is returned as Ok(Running).
C5_InvertMaps ==
    /\ \A n \in 1..Len(stack) :
          stack[n].node.kind = "Invert" =>
             /\ stack[n].calls = <<>> /\ stack[n].i = 1
             /\ n < Len(stack) =>
                   /\ stack[n + 1].path = Append(stack[n].path, 1)
                   /\ stack[n + 1].t0 = stack[n].t0
    /\ last.node.kind = "Invert" =>
          /\ Len(last.calls) = 1 /\ last.calls[1].i = 1
          /\ WithinChildren(last, 1)
          /\ LET child == last.calls[1].res
             IN  /\ IsErr(child) => last.out = Ok("Success")
                 /\ child = Ok("Success") => last.out = Err("Inverted Ok")
                 /\ child = Ok("Running") => last.out = Ok("Running")

\* an Invert returned Ok(Running) because its child did
C5_Witness ==
    /\ last.node.kind = "Invert" /\ last.out = Ok("Running")
    /\ last.calls = <<[i |-> 1, res |-> Ok("Running")]>>

\* C6: Invert(Invert(X)) returns Ok(Success) iff X does, Ok(Running) iff X
\* does, and fails iff X fails; X is run exactly once, from the state the
\* outer Invert was called in, and the state X leaves is the state the
\* outer Invert leaves.
TwiceInverted(node) == node.kind = "Invert" /\ node.kids[1].kind = "Invert"

C6_Step ==
    /\ (Running /\ Top.node.kind = "Invert" /\ ~Pending) =>
          \* the call of the child: nothing runs in between
          /\ Len(stack') = Len(stack) + 1
          /\ stack'[Len(stack')] = Frame(Top.node.kids[1], Append(Top.path, 1), Top.t0)
          /\ UNCHANGED <<state, trace>>
    /\ (Running /\ Top.node.kind = "Invert" /\ Pending) =>
          \* the return: the child has run once and nothing runs after it
          /\ last.path = Append(Top.path, 1) /\ last.t0 = Top.t0
          /\ last.t1 = Len(trace)
          /\ stack' = Below
          /\ last'.node = Top.node /\ last'.path = Top.path
          /\ UNCHANGED <<state, trace>>
    /\ (Running /\ TwiceInverted(Top.node) /\ Pending) =>
          \* the return of the outer Invert, right after the inner one's
          LET x == last.calls[1].res
              out == last'.out
          IN  /\ last.node = Top.node.kids[1] /\ Len(last.calls) = 1
              /\ out = Ok("Success") <=> x = Ok("Success")
              /\ out = Ok("Running") <=> x = Ok("Running")
              /\ IsErr(out) <=> IsErr(x)

\* C6: every step of an Invert, and of an Invert of an Invert, is as above
C6_DoubleInversion == [][C6_Step]_vars

\* Invert(Invert(X)) failed after X, a Sequence, ran two leaves and failed
C6_Witness ==
    /\ TwiceInverted(last.node) /\ last.out = Err("Inverted Ok")
    /\ last.node.kids[1].kids[1].kind = "Sequence"
    /\ last.t1 - last.t0 = 2
    /\ state.num_waves = 1

---------------------------------------------------------------------------
\* the executions of leaf a among the leaf executions es
Count(es, a) == Cardinality({n \in 1..Len(es) : es[n].a = a})

\* C7: While { IsLowerThan5, Increase } called at a value v < 5 ends after
\* exactly 5 - v executions of Increase with the value 5 and Ok(Success)
\* (from 0: five executions); it is never stuck before it ends.
C7_WhileCountsToFive ==
    (tree = TestWhile /\ state0.value < Limit) =>
       LET todo == Limit - state0.value
       IN  /\ Len(trace) <= 2 * todo + 1
           /\ Count(trace, "Increase") <= todo
           /\ Finished \/ ENABLED Next
           /\ Finished =>
                 /\ result = Ok("Success")
                 /\ state = [state0 EXCEPT !.value = Limit]
                 /\ Count(trace, "Increase") = todo
                 /\ Count(trace, "IsLowerThan5") = todo + 1
                 /\ last.iters = todo

C7_Witness ==
    /\ tree = TestWhile /\ state0.value = 0 /\ Finished
    /\ state.value = Limit
    /\ Count(trace, "Increase") = Limit

\* C8: when the condition of a While fails on its first evaluation, the
\* action is never run and the While returns Ok(Success), not the
\* condition's error; While { IsLowerThan5, Increase } called at 42, or at
\* any value >= 5, leaves the state as it was.
C8_WhileFailingImmediately ==
    /\ (last.node.kind = "While" /\ last.iters = 0
          /\ last.calls /= <<>> /\ IsErr(last.calls[1].res)) =>
          /\ last.calls[1].i = 1 /\ Len(last.calls) = 1
          /\ last.out = Ok("Success")
          /\ WithinChildren(last, 1)
    /\ (tree = TestWhile /\ state0.value >= Limit /\ Finished) =>
          /\ result = Ok("Success")
          /\ state = state0
          /\ trace = <<[path |-> <<1>>, a |-> "IsLowerThan5"]>>

C8_Witness ==
    /\ tree = TestWhile /\ state0.value = FarValue /\ Finished
    /\ state.value = FarValue
    /\ last.calls = <<[i |-> 1, res |-> Err(">= 5")]>>

\* C9, as claimed: a While returns only if some evaluation of its
\* condition failed.
C9_ReturnsOnlyOnConditionFailure ==
    last.node.kind = "While" =>
       \E j \in 1..Len(last.calls) :
          last.calls[j].i = 1 /\ IsErr(last.calls[j].res)

\* C9, amended: a While has no iteration cap; it returns if and only if an
\* evaluation of its condition fails or an evaluation of its action fails,
\* at once in both cases, and as long as neither fails it goes on,
\* condition and action in turn.
C9_Returned ==
    last.node.kind = "While" =>
       \/ /\ Len(last.calls) = 1
          /\ last.calls[1].i = 1 /\ IsErr(last.calls[1].res)
          /\ IsOk(last.out)
       \/ /\ Len(last.calls) = 2
          /\ last.calls[1].i = 1 /\ IsOk(last.calls[1].res)
          /\ last.calls[2].i = 2 /\ IsErr(last.calls[2].res)
          /\ IsErr(last.out)

C9_Step ==
    (Running /\ Top.node.kind = "While" /\ Pending) =>
       /\ IsOk(ret) =>
             /\ Len(stack') = Len(stack)
             /\ stack'[Len(stack)].i = 3 - Top.i
             /\ stack'[Len(stack)].iters = Top.iters + (IF Top.i = 2 THEN 1 ELSE 0)
             /\ ret' = NoResult
       /\ IsErr(ret) =>
             /\ stack' = Below
             /\ last'.node = Top.node /\ last'.path = Top.path

\* C9, amended: both parts, how a While returned and what it does with
\* each result of its condition and its action
C9_WhileReturns == []C9_Returned /\ [][C9_Step]_vars

\* a While failed on its action after three full iterations, its
\* condition never having failed
C9_Witness ==
    /\ last.node.kind = "While" /\ IsErr(last.out)
    /\ last.iters >= 3
    /\ IsOk(last.calls[1].res)

\* C10: when the action of a While fails, the While fails at once with
\* "action failed": neither the condition nor the action is run again, and
\* the caller receives that error, not the action's own.
C10_Step ==
    (Running /\ Top.node.kind = "While" /\ Top.i = 2 /\ Pending /\ IsErr(ret)) =>
       /\ stack' = Below
       /\ last'.node = Top.node /\ last'.path = Top.path
       /\ last'.iters = Top.iters
       /\ last'.out = Err("action failed")
       /\ IF Len(stack) = 1
          THEN result' = Err("action failed") /\ ret' = NoResult
          ELSE ret' = Err("action failed") /\ result' = result
       /\ UNCHANGED <<state, trace>>

\* C10: every step of a While whose action has just failed is as above
C10_WhileActionFails == [][C10_Step]_vars

\* a While returned "action failed" in its second iteration, when its
\* action failed with an error of its own
C10_Witness ==
    /\ last.node.kind = "While" /\ last.out = Err("action failed")
    /\ Len(last.calls) = 2 /\ last.calls[2].res = Err("leaf")
    /\ last.iters = 1

---------------------------------------------------------------------------
\* C11: a Select all of whose children fail runs every child exactly once,
\* in order, and then fails with "No behavior successful", whatever the
\* children's own errors were; a Select fails in no other way.
C11_SelectAllFail ==
    /\ (last.node.kind = "Select" /\ IsErr(last.out)) =>
          LET n == Len(last.node.kids)
          IN  /\ Len(last.calls) = n
              /\ InOrder(last.calls)
              /\ \A j \in 1..n : IsErr(last.calls[j].res)
              /\ \A j \in 1..n : last.made[j] = 1
              /\ last.out = Err("No behavior successful")
              /\ WithinChildren(last, n)
    /\ (last.node.kind = "Select"
          /\ Len(last.calls) = Len(last.node.kids)
          /\ \A j \in 1..Len(last.calls) : IsErr(last.calls[j].res)) =>
          last.out = Err("No behavior successful")

\* a Select of two children failed after both did, the first with
\* "Broken" and the second, a Sequence that ran two leaves, with "one
\* behavior failed"
C11_Witness ==
    /\ last.node.kind = "Select" /\ last.out = Err("No behavior successful")
    /\ Len(last.calls) = 2
    /\ last.calls[1].res = Err("Broken")
    /\ last.calls[2].res = Err("one behavior failed")
    /\ last.t1 - last.t0 = 3

---------------------------------------------------------------------------
SomeCallFailed(r) == \E j \in 1..Len(r.calls) : IsErr(r.calls[j].res)

\* C12, as claimed: but for an Invert and the condition of a While, a call
\* one of whose child calls failed never returns success: not a Select,
\* not a Sequence, not a While whose action failed.
C12_FailureIsTerminal ==
    /\ (last.node.kind \in {"Select", "Sequence"} /\ SomeCallFailed(last)) =>
          IsErr(last.out)
    /\ (last.node.kind = "While" /\ Len(last.calls) = 2 /\ IsErr(last.calls[2].res)) =>
          IsErr(last.out)

\* C12, amended: the failure of a child becomes a non-failing result of
\* its parent, at once, only in an Invert and in the condition of a While.
\* It is terminal for a Sequence and, in the action, for a While: both fail
\* at once.  It is not terminal for a Select, which goes on to its next
\* child; the Select returns Ok exactly when a later child does not fail,
\* with that child's result, and fails only when every child has failed.
C12_Step ==
    (Running /\ Pending /\ IsErr(ret)) =>
       LET kind == Top.node.kind
       IN  /\ (kind = "Invert" \/ (kind = "While" /\ Top.i = 1)) =>
                 stack' = Below /\ last'.path = Top.path /\ last'.out = Ok("Success")
           /\ (kind = "Sequence" \/ (kind = "While" /\ Top.i = 2)) =>
                 stack' = Below /\ last'.path = Top.path /\ IsErr(last'.out)
           /\ kind = "Select" =>
                 /\ Len(stack') = Len(stack)
                 /\ stack'[Len(stack)].i = Top.i + 1
                 /\ ret' = NoResult /\ result' = result

C12_Returned ==
    /\ (last.node.kind = "Sequence" /\ SomeCallFailed(last)) => IsErr(last.out)
    /\ (last.node.kind = "While" /\ Len(last.calls) = 2) => IsErr(last.out)
    /\ (last.node.kind = "Select" /\ IsOk(last.out)) =>
          /\ last.calls /= <<>>
          /\ last.calls[Len(last.calls)].res = last.out
    /\ (last.node.kind = "Select" /\ IsErr(last.out)) =>
          /\ Len(last.calls) = Len(last.node.kids)
          /\ \A j \in 1..Len(last.calls) : IsErr(last.calls[j].res)

\* C12, amended: both parts, the step a call takes on a failed child and
\* what failed children mean for the result of a call that returned
C12_FailureAbsorbed == []C12_Returned /\ [][C12_Step]_vars

\* a Select returned Ok(Success) from its second child after its first
\* child, a Sequence, had changed the state and failed
C12_Witness ==
    /\ last.node.kind = "Select" /\ last.out = Ok("Success")
    /\ Len(last.calls) = 2
    /\ last.node.kids[1].kind = "Sequence"
    /\ last.calls[1].res = Err("one behavior failed")

---------------------------------------------------------------------------
\* the leaf executions that have returned
Done == SubSeq(trace, 1, finished)

\* the state holds the effect of every leaf execution that has returned
EffectsKept ==
    /\ state.num_greets = state0.num_greets + Count(Done, "Greet")
    /\ state.num_waves = state0.num_waves + Count(Done, "Wave")
    /\ state.num_bows = state0.num_bows + Count(Done, "Bow")
    /\ state.value = state0.value + Count(Done, "Increase") - Count(Done, "Decrease")

\* C13: what a leaf writes to the state stays: at every moment, also after
\* a Sequence has failed or a Select has moved past a failed child, the
\* state holds the effect of every leaf that has run.  A Sequence that
\* failed at child k ran the leaves of children 1..k, and main's
\* Sequence([Wave, Greet, Fail, Bow]) on zeroed counters fails with
\* num_waves = 1, num_greets = 1 and num_bows = 0.
C13_NoRollback ==
    /\ EffectsKept
    /\ (last.node.kind = "Sequence" /\ IsErr(last.out)
          /\ \A j \in 1..Len(last.node.kids) : last.node.kids[j].kind = "Action") =>
          /\ finished = last.t1
          /\ LeavesOf(last) =
                [j \in 1..Len(last.calls) |->
                   [path |-> Append(last.path, j), a |-> last.node.kids[j].a]]
    /\ (tree = SequenceScenario /\ Finished) =>
          /\ IsErr(result)
          /\ state = [state0 EXCEPT !.num_waves = 1, !.num_greets = 1]
          /\ state.num_bows = 0

\* a Select returned from its second child, Greet, after its first child,
\* Sequence([Wave, Fail]), raised num_waves and failed: both effects stay
C13_Witness ==
    /\ last.node.kind = "Select" /\ IsOk(last.out)
    /\ last.node.kids[1] = Sequence(<<Action("Wave"), Action("Fail")>>)
    /\ last.calls[1].res = Err("one behavior failed")
    /\ state.num_waves = 1 /\ state.num_greets = 1

---------------------------------------------------------------------------
(* Repeated calls (SpecAgain).                                             *)

RECURSIVE LeafNames(_)
LeafNames(node) ==
    IF node.kind = "Action" THEN {node.a}
    ELSE UNION {LeafNames(node.kids[k]) : k \in 1..Len(node.kids)}

\* the leaves of main and of the tests compute their result from the state
Deterministic == "Any" \notin LeafNames(tree)

\* C14: a call starts fresh at the root, whatever the calls before it
\* returned: the root's frame is the tree itself with nothing done, the
\* first child it calls is its first child, and no later child is called
\* before the first.  With deterministic leaves a call that starts in the
\* state an earlier call started in runs the same leaves in the same order
\* and ends with the same result and the same state; the leaves of main
\* ignore the state, and a tree of them repeats its result and its leaves
\* from any state.
C14_StartsFresh ==
    /\ Running =>
          /\ stack[1].node = tree /\ stack[1].path = <<>> /\ stack[1].t0 = 0
          /\ (\A k \in DOMAIN stack[1].made : stack[1].made[k] = 0) =>
                /\ stack[1].i = 1 /\ stack[1].calls = <<>> /\ stack[1].iters = 0
                /\ Len(stack) = 1
                /\ stack[1].pc = "ready" => trace = <<>> /\ state = state0
          /\ \A k \in DOMAIN stack[1].made :
                stack[1].made[k] > 0 => stack[1].made[1] > 0
          /\ (Len(stack) >= 2 /\ stack[1].iters = 0 /\ stack[1].calls = <<>>) =>
                stack[2].node = tree.kids[1] /\ stack[2].path = <<1>>
    /\ (ncalls >= 2 /\ Deterministic /\ state0 = prev.state0) =>
          /\ IsPrefix(trace, prev.trace)
          /\ Finished =>
                result = prev.result /\ trace = prev.trace /\ state = prev.state
    /\ (ncalls >= 2 /\ LeafNames(tree) \subseteq MainActions /\ Finished) =>
          result = prev.result /\ trace = prev.trace

\* a second call has returned, after a call that failed past its first
\* child and left the state it found
C14_Witness ==
    /\ ncalls = 2 /\ Finished
    /\ Deterministic
    /\ IsErr(prev.result) /\ state0 = prev.state0
    /\ Len(prev.trace) >= 2 /\ trace = prev.trace
    /\ tree.kind \in {"Select", "Sequence"}

---------------------------------------------------------------------------
(* Order of evaluation.                                                    *)

\* the calls that wait for a child: all but the one on top
Waiting == 1..(Len(stack) - 1)

\* leaves started and not yet returned
InFlight == Len(trace) - finished

\* C15: evaluation is sequential and depth-first.  At most one leaf is in
\* flight, and one is exactly while the call on top is a leaf between its
\* start and its return; every other call on the stack is a composite that
\* waits for the one child above it.  A Select or Sequence that waits for
\* child i holds the results of children 1..i-1, each called once, and has
\* called no later child; a While that waits for its action holds the
\* non-failing result of its condition, and one that waits for its
\* condition has called condition and action equally often.
C15_Sequential ==
    /\ InFlight \in {0, 1}
    /\ InFlight = 1 <=>
          (Running /\ Top.node.kind = "Action" /\ Top.pc = "running")
    /\ \A n \in Waiting :
          LET fr == stack[n]
              child == stack[n + 1]
          IN  /\ fr.node.kind /= "Action"
              /\ fr.i \in 1..Len(fr.node.kids)
              /\ child.node = fr.node.kids[fr.i]
              /\ child.path = Append(fr.path, fr.i)
              /\ fr.node.kind \in {"Select", "Sequence"} =>
                    /\ Len(fr.calls) = fr.i - 1
                    /\ \A j \in 1..Len(fr.calls) : fr.calls[j].i = j
                    /\ \A k \in 1..Len(fr.node.kids) :
                          fr.made[k] = IF k <= fr.i THEN 1 ELSE 0
              /\ (fr.node.kind = "While" /\ fr.i = 2) =>
                    /\ Len(fr.calls) = 1
                    /\ fr.calls[1].i = 1 /\ IsOk(fr.calls[1].res)
                    /\ fr.made[1] = fr.made[2]
              /\ (fr.node.kind = "While" /\ fr.i = 1) =>
                    /\ fr.calls = <<>>
                    /\ fr.made[1] = fr.made[2] + 1

\* a leaf is in flight as the second child of a Select or Sequence whose
\* first child has returned
C15_Witness ==
    /\ Len(stack) >= 2 /\ InFlight = 1
    /\ Top.node.kind = "Action" /\ Top.pc = "running"
    /\ stack[Len(stack) - 1].node.kind \in {"Select", "Sequence"}
    /\ stack[Len(stack) - 1].i = 2
    /\ Len(stack[Len(stack) - 1].calls) = 1

---------------------------------------------------------------------------
(* Errors.                                                                 *)

\* the errors the leaves raise
LeafErrors == {Err("Broken"), Err(">= 5"), Err("leaf")}

\* the error each composite raises
OwnError(kind) ==
    CASE kind = "Invert"   -> Err("Inverted Ok")
      [] kind = "Select"   -> Err("No behavior successful")
      [] kind = "Sequence" -> Err("one behavior failed")
      [] kind = "While"    -> Err("action failed")

\* C16: a composite that has failed has returned its own error
C16_Returned ==
    /\ (IsErr(last.out) /\ last.node.kind /= "Action") =>
          last.out = OwnError(last.node.kind)
    /\ (IsErr(last.out) /\ last.node.kind = "Action") =>
          last.out \in LeafErrors
    /\ (Finished /\ IsErr(result)) =>
          /\ last.node = tree /\ last.path = <<>>
          /\ result = last.out
          /\ result \in LeafErrors => tree.kind = "Action"
          /\ tree.kind /= "Action" => result = OwnError(tree.kind)

\* C16: the return of a leaf hands on what the action's run gave, result
\* and error and state alike
C16_Step ==
    (Running /\ Top.node.kind = "Action" /\ Top.pc = "running") =>
       \E o \in ActionRun(Top.node.a, state) :
          /\ last'.out = o.res
          /\ state' = o.st
          /\ IF Len(stack) = 1
             THEN result' = o.res /\ ret' = NoResult
             ELSE ret' = o.res /\ result' = result

\* C16: the error the caller receives is the one of the node that failed
\* last.  A leaf returns the result or error of its action unchanged; an
\* Invert, Select, Sequence or While that fails returns "Inverted Ok", "No
\* behavior successful", "one behavior failed" or "action failed",
\* whatever the error below it was; so the top-level result is a leaf's
\* error only when the tree is a leaf.
C16_ErrorOfLastFailure == []C16_Returned /\ [][C16_Step]_vars

\* a composite returned its own error to the caller after a leaf below it
\* had failed with a different one
C16_Witness ==
    /\ Finished /\ IsErr(result)
    /\ tree.kind \in {"Sequence", "While"}
    /\ last.calls /= <<>>
    /\ last.calls[Len(last.calls)].res \in LeafErrors
    /\ result \notin LeafErrors

---------------------------------------------------------------------------
(* What an evaluation changes.                                             *)

RECURSIVE At(_, _)
\* the node of a tree at a path of child numbers
At(node, path) ==
    IF path = <<>> THEN node ELSE At(node.kids[Head(path)], Tail(path))

RECURSIVE ApplyLeaves(_, _)
\* the state after the leaf executions es, run in order from state s
ApplyLeaves(s, es) ==
    IF es = <<>> THEN s
    ELSE ApplyLeaves((CHOOSE o \in ActionRun(Head(es).a, s) : TRUE).st, Tail(es))

\* C17: every call on the stack evaluates the node the tree has at its
\* path, the leaves that ran are leaves of the tree, and the state is the
\* start state with the effects of the returned leaves applied in order
C17_Applied ==
    /\ \A n \in 1..Len(stack) : stack[n].node = At(tree, stack[n].path)
    /\ \A j \in 1..Len(trace) : At(tree, trace[j].path) = Action(trace[j].a)
    /\ state = ApplyLeaves(state0, Done)

\* C17: no step changes the tree, and a step that changes the state is the
\* return of the leaf on top, with the state its action's run left; a step
\* of a composite and the start of a leaf leave the state alone
C17_Step ==
    /\ tree' = tree
    /\ state' /= state =>
          /\ Running /\ Top.node.kind = "Action" /\ Top.pc = "running"
          /\ finished' = finished + 1
          /\ \E o \in ActionRun(Top.node.a, state) : state' = o.st
    /\ finished' = finished => state' = state

\* C17: the evaluator changes nothing itself.  The tree is the same
\* throughout, the state changes only in the run of a leaf and is the same
\* from the return of one leaf to the start of the next, and the final
\* state is the initial state with the effects of the executed leaves
\* applied in the order of their execution.
C17_OnlyLeavesWrite == []C17_Applied /\ [][C17_Step]_vars

\* between the return of a leaf and the start of the next, inside a
\* composite, after leaves have changed the state
C17_Witness ==
    /\ Running /\ InFlight = 0 /\ Pending
    /\ Top.node.kind /= "Action"
    /\ finished >= 2
    /\ state /= state0
    /\ state = ApplyLeaves(state0, trace)

---------------------------------------------------------------------------
(* Termination.                                                            *)

\* a call that can take a step takes one: the leaves terminate, and the
\* executor polls the future of the call until it is ready
SpecFair == InitAgain /\ [][Next]_vars /\ WF_vars(Next)

RECURSIVE HasWhile(_)
HasWhile(node) ==
    \/ node.kind = "While"
    \/ \E k \in 1..Len(node.kids) : HasWhile(node.kids[k])

WhileFree == ~HasWhile(tree)

\* the leaf at `path` lies under a While of the tree
UnderWhile(path) ==
    \E k \in 0..(Len(path) - 1) : At(tree, SubSeq(path, 1, k)).kind = "While"

\* C18: two executions of the same leaf occurrence in one call lie under a
\* While; a call on a tree without a While is never stuck before it
\* returns
C18_Once ==
    /\ \A m, n \in 1..Len(trace) :
          (m < n /\ trace[m].path = trace[n].path) => UnderWhile(trace[m].path)
    /\ WhileFree =>
          /\ \A m, n \in 1..Len(trace) : m /= n => trace[m].path /= trace[n].path
          /\ Finished \/ ENABLED Next

\* C18: the evaluation of a tree without a While terminates when its
\* leaves do, and runs every leaf occurrence at most once; only a leaf
\* under a While is executed more than once in one call.
C18_TerminatesOnce == []C18_Once /\ (WhileFree ~> Finished)

\* a call on a tree without a While has returned after running four leaf
\* occurrences, each once
C18_Witness ==
    /\ WhileFree /\ Finished
    /\ Len(trace) = 4
    /\ \A m, n \in 1..Len(trace) : m /= n => trace[m].path /= trace[n].path

---------------------------------------------------------------------------
(* Composites without children.                                            *)

\* what Select(vec![]) and Sequence(vec![]) return
EmptyResult(kind) ==
    IF kind = "Select" THEN Err("No behavior successful") ELSE Ok("Success")

EmptyComposite(node) == node.kind \in {"Select", "Sequence"} /\ node.kids = <<>>

\* C19: an empty Select or Sequence that has returned ran nothing
C19_Returned ==
    /\ EmptyComposite(last.node) =>
          /\ last.out = EmptyResult(last.node.kind)
          /\ last.calls = <<>>
          /\ LeavesOf(last) = <<>>
    /\ (EmptyComposite(tree) /\ Finished) =>
          /\ result = EmptyResult(tree.kind)
          /\ trace = <<>>
          /\ state = state0

\* C19: the one step of an empty Select or Sequence is its return
C19_Step ==
    (Running /\ EmptyComposite(Top.node)) =>
       /\ stack' = Below
       /\ last'.node = Top.node /\ last'.path = Top.path
       /\ last'.out = EmptyResult(Top.node.kind)
       /\ IF Len(stack) = 1
          THEN result' = EmptyResult(Top.node.kind) /\ ret' = NoResult
          ELSE ret' = EmptyResult(Top.node.kind) /\ result' = result
       /\ UNCHANGED <<state, trace, finished>>

\* C19: a Select with no children fails with "No behavior successful" and
\* a Sequence with no children returns Ok(Success); neither runs a leaf
\* nor changes the state.
C19_EmptyComposites == []C19_Returned /\ [][C19_Step]_vars

\* a Select went past its first child, an empty Select that failed, and
\* returned the success of its second, an empty Sequence
C19_Witness ==
    /\ Finished /\ result = Ok("Success")
    /\ tree = Select(<<Select(<<>>), Sequence(<<>>)>>)
    /\ last.calls = <<[i |-> 1, res |-> Err("No behavior successful")],
                      [i |-> 2, res |-> Ok("Success")]>>
    /\ trace = <<>>

---------------------------------------------------------------------------
(* The loop of a While.                                                    *)

\* C20: a While that has returned did so with Ok(Success), its condition
\* evaluated once more than its action, or with an error, both evaluated
\* equally often; a While that is being evaluated has called its action as
\* often as its condition, or once less, and is about to call its action
\* only when the call that returned last is its condition, not failing
C20_Counted ==
    /\ last.node.kind = "While" =>
          /\ last.out \in {Ok("Success"), Err("action failed")}
          /\ last.out /= Ok("Running")
          /\ IsOk(last.out) =>
                /\ last.made[1] = last.made[2] + 1
                /\ last.made[2] = last.iters
                /\ Len(last.calls) = 1 /\ IsErr(last.calls[1].res)
          /\ IsErr(last.out) =>
                /\ last.made[1] = last.made[2]
                /\ last.made[1] = last.iters + 1
                /\ Len(last.calls) = 2
                /\ IsOk(last.calls[1].res) /\ IsErr(last.calls[2].res)
    /\ \A n \in 1..Len(stack) :
          stack[n].node.kind = "While" =>
             LET fr == stack[n]
                 called == n \in Waiting \/ Pending
             IN  /\ fr.i \in {1, 2}
                 /\ fr.made[2] = fr.iters + (IF fr.i = 2 /\ called THEN 1 ELSE 0)
                 /\ fr.made[1] = fr.iters + (IF fr.i = 2 \/ called THEN 1 ELSE 0)
                 /\ fr.i = 1 => fr.calls = <<>>
                 /\ fr.i = 2 =>
                       /\ Len(fr.calls) = 1
                       /\ fr.calls[1].i = 1 /\ IsOk(fr.calls[1].res)
                 /\ (fr.i = 2 /\ ~called) =>
                       /\ last.path = Append(fr.path, 1)
                       /\ last.out = fr.calls[1].res
                       /\ last.t1 = Len(trace)

\* C20: the first call of a While is its condition, and after a condition
\* that did not fail its next call is its action
C20_Step ==
    /\ (Running /\ Top.node.kind = "While" /\ ~Pending /\ Top.made[1] = 0) =>
          /\ Len(stack') = Len(stack) + 1
          /\ stack'[Len(stack')].path = Append(Top.path, 1)
    /\ (Running /\ Top.node.kind = "While" /\ ~Pending /\ Top.i = 2) =>
          /\ Len(stack') = Len(stack) + 1
          /\ stack'[Len(stack')].node = Top.node.kids[2]
          /\ stack'[Len(stack')].path = Append(Top.path, 2)

\* C20: in one evaluation of a While, condition and action alternate,
\* the condition first; every run of the action comes right after an
\* evaluation of the condition that did not fail; a While never returns
\* Ok(Running); when it returns Ok(Success) the condition was evaluated
\* once more than the action, and when it fails both were evaluated
\* equally often.
C20_WhileAlternates == []C20_Counted /\ [][C20_Step]_vars

\* a While returned Ok(Success) after three evaluations of its condition
\* and two of its action
C20_Witness ==
    /\ last.node.kind = "While" /\ last.out = Ok("Success")
    /\ last.made = <<3, 2>>
    /\ last.iters = 2

=============================================================================
